---- MODULE Spec2Model ----
(***************************************************************************)
(* State machine of the sync-state tracker (state/sync_state.py) and the   *)
(* job manager (state/job_manager.py) over the SQLite store                *)
(* (state/database.py).                                                    *)
(*                                                                         *)
(* Conventions.                                                            *)
(*  - A nullable column or an Optional argument is a sequence: <<>> is     *)
(*    NULL / None, <<v>> is the value v.                                   *)
(*  - A REAL progress is held in hundredths: 100 is 1.0, 150 is 1.5.       *)
(*  - CURRENT_TIMESTAMP and datetime.now() read the clock `now`, counted   *)
(*    in days.                                                             *)
(*  - A table is a function from the primary / unique key to the row; a    *)
(*    key outside the DOMAIN has no row.                                   *)
(***************************************************************************)
EXTENDS Integers, Sequences, FiniteSets, TLC

VARIABLES
    now,            \* the wall clock, in days
    sync_jobs,      \* table sync_jobs: job id -> row
    next_id,        \* the next identifier uuid4() hands out
    active_jobs,    \* JobManager.active_jobs: job id -> task
    tasks,          \* the asyncio tasks made by start_job, in creation order
    cancel_ret,     \* <<job id, value>> returned by the last cancel_job call
    sync_state,     \* table sync_state: <<integration, resource_id>> -> row
    calls,          \* update_sync_state calls in flight, per caller
    hist,           \* per key: the log of the calls written since the last delete
    serial,         \* per key: TRUE while no two calls on it have overlapped
    ncalls,         \* the update_sync_state calls begun so far
    nrows,          \* per key: the rows of table sync_state that carry the key
    schema_version, \* table schema_version: its rows, in insertion order
    inits,          \* per Database object constructed on the store so far:
                    \* whether the store held a sync state and a job by then
    write_ret,      \* how the last execute_write or execute_many call ended
    read_ret,       \* <<method, arguments, value>> of the last read of the
                    \* sync-state tracker that has returned
    stops           \* per stop of the owning process so far: the rows of the
                    \* jobs that were running when it stopped

vars == <<now, sync_jobs, next_id, active_jobs, tasks, cancel_ret,
          sync_state, calls, hist, serial, ncalls, nrows,
          schema_version, inits, write_ret, read_ret, stops>>
jobVars == <<sync_jobs, next_id, active_jobs, tasks, cancel_ret>>
storeVars == <<schema_version, inits, write_ret, read_ret, stops>>
syncVars == <<sync_state, calls, hist, serial, ncalls, nrows, storeVars>>

(***************************************************************************)
(* Bounds of the model.                                                    *)
(***************************************************************************)
MaxJobs == 2
MaxTasks == 2
MaxNow == 1
MaxCallers == 2
MaxCalls == 3
MaxInits == 3
MaxStops == 1

None == <<>>
Some(v) == <<v>>

JobIds == 1..MaxJobs
TaskIds == 1..MaxTasks

(***************************************************************************)
(* Python values a work function returns, their truth value and their      *)
(* json.dumps text.                                                        *)
(***************************************************************************)
PyNone == "None"
PyZero == "0"
PyDict == "{'items': 3}"
WorkResults == {PyDict, PyZero}
PyEmptyList == "[]"
PyEmptyDict == "{}"
PyEmptyStr == "''"
PyList == "[1]"
\* serializable values, the empty and zero ones included
SerializableResults ==
    {PyDict, PyList, PyZero, PyEmptyList, PyEmptyDict, PyEmptyStr}

Truthy(v) == v \notin {PyNone, PyZero, PyEmptyList, PyEmptyDict, PyEmptyStr}

JsonDumps(v) ==
    CASE v = PyNone -> "null"
      [] v = PyZero -> "0"
      [] v = PyDict -> "{\"items\": 3}"
      [] v = PyList -> "[1]"
      [] v = PyEmptyList -> "[]"
      [] v = PyEmptyDict -> "{}"
      [] v = PyEmptyStr -> "\"\""

\* json.loads of a text json.dumps has made
JsonLoads(text) ==
    CASE text = "null" -> PyNone
      [] text = "0" -> PyZero
      [] text = "{\"items\": 3}" -> PyDict
      [] text = "[1]" -> PyList
      [] text = "[]" -> PyEmptyList
      [] text = "{}" -> PyEmptyDict
      [] text = "\"\"" -> PyEmptyStr

(***************************************************************************)
(* Database: the construction of a Database object on the store.           *)
(***************************************************************************)
SCHEMA_VERSION == 1

\* create_tables that inserts the version row without looking for it, into a
\* table without PRIMARY KEY
create_tables_always_inserts(versions) ==
    Append(versions, [version |-> SCHEMA_VERSION, applied_at |-> now])

\* _create_tables on table schema_version: SELECT version FROM schema_version
\* WHERE version = ?, and the INSERT when there is no such row. The CREATE
\* TABLE IF NOT EXISTS statements leave the tables that exist as they are.
create_tables(versions) ==
    IF \E i \in DOMAIN versions : versions[i].version = SCHEMA_VERSION
    THEN versions
    ELSE Append(versions, [version |-> SCHEMA_VERSION, applied_at |-> now])

\* Database(db_path) on the store that exists: _ensure_database_exists
Initialize ==
    /\ Len(inits) < MaxInits
    /\ inits' = Append(inits, sync_state # <<>> /\ sync_jobs # <<>>)
    /\ schema_version' = create_tables(schema_version)
    /\ UNCHANGED <<now, jobVars, sync_state, calls, hist, serial, ncalls, nrows,
                   write_ret, read_ret, stops>>

(***************************************************************************)
(* Table sync_jobs.                                                        *)
(***************************************************************************)
ProgressZero == 0
ProgressOne == 100
ProcessedDefault == 0

Terminal == {"completed", "failed", "cancelled"}

\* NewJobRow with VALUES (?, ?, ?, 'running', ?, CURRENT_TIMESTAMP)
NewJobRow_running ==
    [status |-> "running",
     progress |-> ProgressZero,
     processed_items |-> ProcessedDefault,
     result |-> None,
     error |-> None,
     completed_at |-> None,
     created_at |-> now]

\* INSERT INTO sync_jobs (...) VALUES (?, ?, ?, 'pending', ?, CURRENT_TIMESTAMP)
\* with the column defaults of the CREATE TABLE.
NewJobRow ==
    [status |-> "pending",
     progress |-> ProgressZero,
     processed_items |-> ProcessedDefault,
     result |-> None,
     error |-> None,
     completed_at |-> None,
     created_at |-> now]

\* start_job without its UPDATE: the row stays as create_job wrote it
start_job_update_skipped(job_id) == sync_jobs

\* UPDATE sync_jobs SET status = 'running', ... WHERE id = ?
start_job_update(job_id) ==
    IF job_id \in DOMAIN sync_jobs
    THEN [sync_jobs EXCEPT ![job_id].status = "running"]
    ELSE sync_jobs

\* update_progress with `if processed_items:`: a count of 0 is not written
update_progress_unless_zero(job_id, progress, processed_items) ==
    IF job_id \in DOMAIN sync_jobs
    THEN [sync_jobs EXCEPT
            ![job_id].progress = progress,
            ![job_id].processed_items =
                IF processed_items # None /\ processed_items[1] # 0
                THEN processed_items[1] ELSE @]
    ELSE sync_jobs

\* update_progress: UPDATE sync_jobs SET progress = ? [, processed_items = ?]
\* WHERE id = ?
update_progress(job_id, progress, processed_items) ==
    IF job_id \in DOMAIN sync_jobs
    THEN [sync_jobs EXCEPT
            ![job_id].progress = progress,
            ![job_id].processed_items =
                IF processed_items # None THEN processed_items[1] ELSE @]
    ELSE sync_jobs

\* complete_job: UPDATE sync_jobs SET status = ?, result = ?, error = ?,
\* completed_at = CURRENT_TIMESTAMP, progress = 1.0 WHERE id = ?
complete_job(job_id, status, result, error) ==
    LET result_json == IF Truthy(result) THEN Some(JsonDumps(result)) ELSE None
    IN  IF job_id \in DOMAIN sync_jobs
        THEN [sync_jobs EXCEPT
                ![job_id].status = status,
                ![job_id].result = result_json,
                ![job_id].error = error,
                ![job_id].completed_at = Some(now),
                ![job_id].progress = ProgressOne]
        ELSE sync_jobs

\* get_job_status: SELECT * FROM sync_jobs WHERE id = ?, the row or None,
\* its result parsed by json.loads when `job and job["result"]`
get_job_status(job_id) ==
    IF job_id \in DOMAIN sync_jobs
    THEN LET job == sync_jobs[job_id]
         IN  Some([job EXCEPT
                     !.result = IF job.result # None /\ job.result[1] # ""
                                THEN Some(JsonLoads(job.result[1]))
                                ELSE job.result])
    ELSE None

\* active_jobs_pop as self.active_jobs.clear()
active_jobs_clear(job_id) == <<>>

\* self.active_jobs.pop(job_id, None)
active_jobs_pop(job_id) ==
    [j \in DOMAIN active_jobs \ {job_id} |-> active_jobs[j]]

(***************************************************************************)
(* Inputs of the model.                                                    *)
(***************************************************************************)
\* fractions a work function passes to the progress callback
Fractions == {-50, 50, 150}
\* processed counts a work function passes to the progress callback
ProcessedCounts == {None, Some(3)}
\* the same with a count of zero
ProgressCounts == ProcessedCounts \cup {Some(0)}
\* str(e) of the exception a work function raises
ErrorMessages == {"boom"}
\* the days argument of cleanup_old_jobs
PurgeDays == {0, 1}

(***************************************************************************)
(* JobManager: the calls of its public methods.                            *)
(***************************************************************************)
\* create_job: job_id = str(uuid.uuid4()), then the INSERT.
CreateJob ==
    /\ next_id <= MaxJobs
    /\ sync_jobs' = [j \in DOMAIN sync_jobs \cup {next_id} |->
                        IF j = next_id THEN NewJobRow ELSE sync_jobs[j]]
    /\ next_id' = next_id + 1
    /\ UNCHANGED <<now, active_jobs, tasks, cancel_ret, syncVars>>

\* start_job: the UPDATE, then asyncio.create_task and the registration.
\* job_id is any identifier create_job has returned.
StartJob(job_id) ==
    /\ job_id < next_id
    /\ Len(tasks) < MaxTasks
    /\ sync_jobs' = start_job_update(job_id)
    /\ tasks' = Append(tasks, [job |-> job_id, pc |-> "scheduled",
                               must_cancel |-> FALSE])
    /\ active_jobs' = [j \in DOMAIN active_jobs \cup {job_id} |->
                          IF j = job_id THEN Len(tasks) + 1 ELSE active_jobs[j]]
    /\ UNCHANGED <<now, next_id, cancel_ret, syncVars>>

\* asyncio.Task.cancel(): no effect on a finished task, otherwise the task gets
\* CancelledError thrown into it the next time the event loop runs it.
task_cancel(t) ==
    IF tasks[t].pc = "done"
    THEN tasks
    ELSE [tasks EXCEPT ![t].must_cancel = TRUE]

\* cancel_job without its complete_job call: the task is cancelled and
\* nothing is written
CancelJob_unrecorded(job_id) ==
    IF job_id \in DOMAIN active_jobs
    THEN /\ tasks' = task_cancel(active_jobs[job_id])
         /\ cancel_ret' = <<job_id, TRUE>>
         /\ UNCHANGED <<now, sync_jobs, next_id, active_jobs, syncVars>>
    ELSE /\ cancel_ret' = <<job_id, FALSE>>
         /\ UNCHANGED <<now, sync_jobs, next_id, active_jobs, tasks, syncVars>>

\* cancel_job
CancelJob(job_id) ==
    IF job_id \in DOMAIN active_jobs
    THEN /\ tasks' = task_cancel(active_jobs[job_id])
         /\ sync_jobs' = complete_job(job_id, "cancelled", PyNone,
                                      Some("Cancelled by user"))
         /\ cancel_ret' = <<job_id, TRUE>>
         /\ UNCHANGED <<now, next_id, active_jobs, syncVars>>
    ELSE /\ cancel_ret' = <<job_id, FALSE>>
         /\ UNCHANGED <<now, sync_jobs, next_id, active_jobs, tasks, syncVars>>

\* cleanup_old_jobs_deleted without the condition on status
cleanup_old_jobs_deleted_any_status(days) ==
    {j \in DOMAIN sync_jobs : sync_jobs[j].created_at < now - days}

\* cleanup_old_jobs: DELETE FROM sync_jobs WHERE status IN ('completed',
\* 'failed', 'cancelled') AND created_at < datetime('now', '-days days')
cleanup_old_jobs_deleted(days) ==
    {j \in DOMAIN sync_jobs :
        /\ sync_jobs[j].status \in Terminal
        /\ sync_jobs[j].created_at < now - days}

\* Database.execute_write: return cursor.lastrowid or cursor.rowcount
execute_write_returns(lastrowid, rowcount) ==
    IF lastrowid # 0 THEN lastrowid ELSE rowcount

\* the value cleanup_old_jobs returns: the cursor of a DELETE on a connection
\* of its own has lastrowid 0
cleanup_old_jobs_returns(days) ==
    execute_write_returns(0, Cardinality(cleanup_old_jobs_deleted(days)))

CleanupOldJobs(days) ==
    /\ sync_jobs' = [j \in DOMAIN sync_jobs \ cleanup_old_jobs_deleted(days) |->
                        sync_jobs[j]]
    /\ UNCHANGED <<now, next_id, active_jobs, tasks, cancel_ret, syncVars>>

\* get_active_jobs: SELECT * FROM sync_jobs WHERE status IN ('pending',
\* 'running') ORDER BY created_at DESC. The lists of job ids the query can
\* return: rows of equal created_at come in any order.
get_active_jobs ==
    LET selected == {j \in DOMAIN sync_jobs :
                       sync_jobs[j].status \in {"pending", "running"}}
        n == Cardinality(selected)
        orders == {o \in [1..n -> selected] :
                     /\ \A a, b \in 1..n : a # b => o[a] # o[b]
                     /\ \A a, b \in 1..n :
                           a < b => sync_jobs[o[a]].created_at
                                        >= sync_jobs[o[b]].created_at}
    IN  orders

\* The owning process stops and a new one constructs its JobManager on the
\* store: the tasks of the old process are gone with it, none of them runs
\* another step, and active_jobs is the empty dict of __init__.
ProcessRestart ==
    /\ Len(stops) < MaxStops
    /\ stops' = Append(stops,
                       [j \in {x \in DOMAIN sync_jobs :
                                  sync_jobs[x].status = "running"} |->
                           sync_jobs[j]])
    /\ tasks' = <<>>
    /\ active_jobs' = <<>>
    /\ cancel_ret' = <<>>
    /\ UNCHANGED <<now, sync_jobs, next_id, sync_state, calls, hist, serial,
                   ncalls, nrows, schema_version, inits, write_ret, read_ret>>

(***************************************************************************)
(* JobManager._run_job: the steps of one task on the event loop.           *)
(***************************************************************************)
\* The first step of a task nobody cancelled: the coroutine enters the try
\* block, calls job_func and suspends at its first await.
TaskStart(t) ==
    /\ t \in DOMAIN tasks
    /\ tasks[t].pc = "scheduled"
    /\ ~tasks[t].must_cancel
    /\ tasks' = [tasks EXCEPT ![t].pc = "awaiting"]
    /\ UNCHANGED <<now, sync_jobs, next_id, active_jobs, cancel_ret, syncVars>>

\* The first step of a task cancelled before it ran: CancelledError is thrown
\* into the coroutine before its first statement, so neither the try block nor
\* its finally clause is entered.
TaskStartCancelled(t) ==
    /\ t \in DOMAIN tasks
    /\ tasks[t].pc = "scheduled"
    /\ tasks[t].must_cancel
    /\ tasks' = [tasks EXCEPT ![t].pc = "done", ![t].must_cancel = FALSE]
    /\ UNCHANGED <<now, sync_jobs, next_id, active_jobs, cancel_ret, syncVars>>

\* job_func calls progress_callback(p, i) and goes on to its next await.
WorkProgress(t, p, i) ==
    /\ t \in DOMAIN tasks
    /\ tasks[t].pc = "awaiting"
    /\ ~tasks[t].must_cancel
    /\ sync_jobs' = update_progress(tasks[t].job, p, i)
    /\ UNCHANGED <<now, next_id, active_jobs, tasks, cancel_ret, syncVars>>

\* job_func returns: complete_job(job_id, "completed", result), then finally.
WorkReturn(t, result) ==
    /\ t \in DOMAIN tasks
    /\ tasks[t].pc = "awaiting"
    /\ ~tasks[t].must_cancel
    /\ sync_jobs' = complete_job(tasks[t].job, "completed", result, None)
    /\ active_jobs' = active_jobs_pop(tasks[t].job)
    /\ tasks' = [tasks EXCEPT ![t].pc = "done"]
    /\ UNCHANGED <<now, next_id, cancel_ret, syncVars>>

\* WorkRaise without the `except Exception` clause: only the finally clause
\* runs
WorkRaise_uncaught(t, msg) ==
    /\ t \in DOMAIN tasks
    /\ tasks[t].pc = "awaiting"
    /\ ~tasks[t].must_cancel
    /\ active_jobs' = active_jobs_pop(tasks[t].job)
    /\ tasks' = [tasks EXCEPT ![t].pc = "done"]
    /\ UNCHANGED <<now, sync_jobs, next_id, cancel_ret, syncVars>>

\* job_func raises an Exception: complete_job(job_id, "failed", None, str(e)),
\* then finally.
WorkRaise(t, msg) ==
    /\ t \in DOMAIN tasks
    /\ tasks[t].pc = "awaiting"
    /\ ~tasks[t].must_cancel
    /\ sync_jobs' = complete_job(tasks[t].job, "failed", PyNone, Some(msg))
    /\ active_jobs' = active_jobs_pop(tasks[t].job)
    /\ tasks' = [tasks EXCEPT ![t].pc = "done"]
    /\ UNCHANGED <<now, next_id, cancel_ret, syncVars>>

\* CancelledError arrives at the await of a job_func that does not intercept
\* it: it is no Exception, so only the finally clause runs.
WorkCancelled(t) ==
    /\ t \in DOMAIN tasks
    /\ tasks[t].pc = "awaiting"
    /\ tasks[t].must_cancel
    /\ active_jobs' = active_jobs_pop(tasks[t].job)
    /\ tasks' = [tasks EXCEPT ![t].pc = "done", ![t].must_cancel = FALSE]
    /\ UNCHANGED <<now, sync_jobs, next_id, cancel_ret, syncVars>>

\* CancelledError arrives at the await of a job_func that catches it and goes
\* on (to report progress, to return or to raise in a later step).
WorkIntercepts(t) ==
    /\ t \in DOMAIN tasks
    /\ tasks[t].pc = "awaiting"
    /\ tasks[t].must_cancel
    /\ tasks' = [tasks EXCEPT ![t].must_cancel = FALSE]
    /\ UNCHANGED <<now, sync_jobs, next_id, active_jobs, cancel_ret, syncVars>>

TaskStep(t) ==
    \/ TaskStart(t)
    \/ TaskStartCancelled(t)
    \/ \E p \in Fractions, i \in ProcessedCounts : WorkProgress(t, p, i)
    \/ \E r \in WorkResults : WorkReturn(t, r)
    \/ \E m \in ErrorMessages : WorkRaise(t, m)
    \/ WorkCancelled(t)
    \/ WorkIntercepts(t)

\* The clock advances.
Tick ==
    /\ now < MaxNow
    /\ now' = now + 1
    /\ UNCHANGED <<jobVars, syncVars>>

(***************************************************************************)
(* Table sync_state and the arguments of update_sync_state.                *)
(***************************************************************************)
Keys == {<<"slack", "C123456">>, <<"gdrive", "F789">>}
Callers == 1..MaxCallers

\* A last_timestamp text: what kind of text it is and, for a date-time, its day.
\*   naive  : ISO-8601 without offset, "2024-01-15T12:00:00"
\*   aware  : ISO-8601 with an offset or Z, "2024-01-15T12:00:00Z"
\*   cursor : an integration's own cursor, Slack's "1700000000.123456"
\*   empty  : ""
TsFresh == [kind |-> "naive", day |-> 0]
TsOld == [kind |-> "naive", day |-> -40]
TsAware == [kind |-> "aware", day |-> 0]
TsCursor == [kind |-> "cursor", day |-> 0]
TsEmpty == [kind |-> "empty", day |-> 0]

\* new_items arguments
ItemCounts == {-1, 2}

\* the other arguments of the calls of the concurrent callers: resource_name,
\* last_timestamp, status, error, cursor
Outcomes ==
    {[resource_name |-> Some("feedback"), last_timestamp |-> Some(TsFresh),
      status |-> "success", error |-> None, cursor |-> None],
     [resource_name |-> None, last_timestamp |-> Some(TsCursor),
      status |-> "failed", error |-> Some("timeout"), cursor |-> Some("page2")]}

\* every last_timestamp and status, for the calls that should_full_sync is
\* checked after
Watermarks == {None, Some(TsEmpty), Some(TsCursor), Some(TsAware),
               Some(TsOld), Some(TsFresh)}
Statuses == {"success", "failed", "in_progress"}
WatermarkKeys == {<<"slack", "C123456">>}
WatermarkOutcomes ==
    {[resource_name |-> None, last_timestamp |-> w, status |-> st,
      error |-> IF st = "failed" THEN Some("timeout") ELSE None,
      cursor |-> None] : w \in Watermarks, st \in Statuses}

\* every resource_name, cursor and error, for the calls that the stored row is
\* compared with
ResourceNames == {None, Some("general"), Some("random")}
Cursors == {None, Some("page2")}
RowOutcomes ==
    {[resource_name |-> n, last_timestamp |-> w, status |-> st,
      error |-> IF st = "failed" THEN Some("timeout") ELSE None,
      cursor |-> cu] :
        n \in ResourceNames, w \in {Some(TsFresh), Some(TsCursor)},
        st \in {"success", "failed"}, cu \in Cursors}

\* the resources and new_items of test_sync_summary
SummaryKeys == {<<"slack", "C123456">>, <<"slack", "C456">>, <<"gdrive", "F789">>}
SummaryCounts == {50, 100, 200}
\* the calls the summary is taken after: the two kinds of Outcomes and a call
\* with status in_progress
SummaryOutcomes ==
    Outcomes \cup
    {[resource_name |-> None, last_timestamp |-> None,
      status |-> "in_progress", error |-> None, cursor |-> None]}

\* max_age_days arguments of should_full_sync; 30 is the default
MaxAgeDefault == 30
MaxAges == {0, 1, MaxAgeDefault}

IdleCall == [pc |-> "idle", key |-> <<"", "">>, new_items |-> 0,
             outcome |-> None, current |-> None]

\* get_sync_state: SELECT * FROM sync_state WHERE integration = ? AND
\* resource_id = ?, the first row or None
get_sync_state(key) ==
    IF key \in DOMAIN sync_state THEN Some(sync_state[key]) ELSE None

\* update_existing with `total = new_items`: the total is overwritten
update_existing_overwrites(key, current, new_items, o) ==
    IF key \in DOMAIN sync_state
    THEN [sync_state EXCEPT
            ![key].last_sync_timestamp = o.last_timestamp,
            ![key].last_sync_cursor = o.cursor,
            ![key].total_items_synced = new_items,
            ![key].last_sync_new_items = new_items,
            ![key].last_sync_status = o.status,
            ![key].last_sync_error = o.error,
            ![key].updated_at = now]
    ELSE sync_state

\* update_existing with the increment made by the statement itself,
\* `SET total_items_synced = total_items_synced + ?`
update_existing_atomic(key, current, new_items, o) ==
    IF key \in DOMAIN sync_state
    THEN [sync_state EXCEPT
            ![key].last_sync_timestamp = o.last_timestamp,
            ![key].last_sync_cursor = o.cursor,
            ![key].total_items_synced = @ + new_items,
            ![key].last_sync_new_items = new_items,
            ![key].last_sync_status = o.status,
            ![key].last_sync_error = o.error,
            ![key].updated_at = now]
    ELSE sync_state

\* update_existing with `last_sync_error = COALESCE(?, last_sync_error)`: a
\* call without an error keeps the stored one
update_existing_keeps_error(key, current, new_items, o) ==
    LET total == current.total_items_synced + new_items
    IN  IF key \in DOMAIN sync_state
        THEN [sync_state EXCEPT
                ![key].last_sync_timestamp = o.last_timestamp,
                ![key].last_sync_cursor = o.cursor,
                ![key].total_items_synced = total,
                ![key].last_sync_new_items = new_items,
                ![key].last_sync_status = o.status,
                ![key].last_sync_error = IF o.error = None THEN @ ELSE o.error,
                ![key].updated_at = now]
        ELSE sync_state

\* update_existing without its WHERE clause: every row of the table is set
update_existing_every_row(key, current, new_items, o) ==
    LET total == current.total_items_synced + new_items
    IN  [k \in DOMAIN sync_state |->
            [sync_state[k] EXCEPT
                !.last_sync_timestamp = o.last_timestamp,
                !.last_sync_cursor = o.cursor,
                !.total_items_synced = total,
                !.last_sync_new_items = new_items,
                !.last_sync_status = o.status,
                !.last_sync_error = o.error,
                !.updated_at = now]]

\* update_existing as an upsert: a key without a row gets one
update_existing_or_insert(key, current, new_items, o) ==
    LET total == current.total_items_synced + new_items
    IN  [k \in DOMAIN sync_state \cup {key} |->
            IF k = key
            THEN [resource_name |-> current.resource_name,
                  last_sync_timestamp |-> o.last_timestamp,
                  last_sync_cursor |-> o.cursor,
                  total_items_synced |-> total,
                  last_sync_new_items |-> new_items,
                  last_sync_status |-> o.status,
                  last_sync_error |-> o.error,
                  created_at |-> current.created_at,
                  updated_at |-> now]
            ELSE sync_state[k]]

\* The UPDATE branch of update_sync_state, from the row read before.
update_existing(key, current, new_items, o) ==
    LET total == current.total_items_synced + new_items
    IN  IF key \in DOMAIN sync_state
        THEN [sync_state EXCEPT
                ![key].last_sync_timestamp = o.last_timestamp,
                ![key].last_sync_cursor = o.cursor,
                ![key].total_items_synced = total,
                ![key].last_sync_new_items = new_items,
                ![key].last_sync_status = o.status,
                ![key].last_sync_error = o.error,
                ![key].updated_at = now]
        ELSE sync_state

\* inserted_rows of a table without UNIQUE(integration, resource_id)
inserted_rows_without_unique(key) == 1

\* the rows an INSERT with the key adds to the table: UNIQUE(integration,
\* resource_id) rejects it when the key has a row by now
inserted_rows(key) == IF key \in DOMAIN sync_state THEN 0 ELSE 1

\* the INSERT raises sqlite3.IntegrityError out of execute_write and out of
\* update_sync_state, which catches nothing: UNIQUE(integration, resource_id)
\* fails when the key has a row by now
insert_raises(key) == key \in DOMAIN sync_state

\* insert_new as INSERT OR REPLACE: the row of the key is replaced
insert_new_or_replace(key, new_items, o) ==
    [k \in DOMAIN sync_state \cup {key} |->
        IF k = key
        THEN [resource_name |-> o.resource_name,
              last_sync_timestamp |-> o.last_timestamp,
              last_sync_cursor |-> o.cursor,
              total_items_synced |-> new_items,
              last_sync_new_items |-> new_items,
              last_sync_status |-> o.status,
              last_sync_error |-> o.error,
              created_at |-> now,
              updated_at |-> now]
        ELSE sync_state[k]]

\* The INSERT branch of update_sync_state; sync_state[key] stays the row that
\* SELECT ... fetchone() finds.
insert_new(key, new_items, o) ==
    IF key \in DOMAIN sync_state
    THEN sync_state
    ELSE [k \in DOMAIN sync_state \cup {key} |->
            IF k = key
            THEN [resource_name |-> o.resource_name,
                  last_sync_timestamp |-> o.last_timestamp,
                  last_sync_cursor |-> o.cursor,
                  total_items_synced |-> new_items,
                  last_sync_new_items |-> new_items,
                  last_sync_status |-> o.status,
                  last_sync_error |-> o.error,
                  created_at |-> now,
                  updated_at |-> now]
            ELSE sync_state[k]]

\* The log of the calls written on one key since its last delete: the sum of
\* their new_items, and for the last two of them the new_items, the total the
\* call had read (None when it had read no row), the status, and whether
\* the call raised.
EmptyLog == [sum |-> 0, recent |-> <<>>]

LogCall(log, new_items, base, status, raised) ==
    LET all == Append(log.recent, [new_items |-> new_items, base |-> base,
                                   status |-> status, raised |-> raised])
    IN  [sum |-> log.sum + new_items,
         recent |-> IF Len(all) > 2 THEN Tail(all) ELSE all]

InFlight(key) == {c \in Callers : calls[c].pc = "read" /\ calls[c].key = key}

\* update_sync_state, first half: current = self.get_sync_state(...)
RecordRead(c, key, new_items, o) ==
    /\ calls[c].pc = "idle"
    /\ ncalls < MaxCalls
    /\ ncalls' = ncalls + 1
    /\ calls' = [calls EXCEPT ![c] =
                    [pc |-> "read", key |-> key, new_items |-> new_items,
                     outcome |-> Some(o), current |-> get_sync_state(key)]]
    /\ serial' = [serial EXCEPT ![key] = @ /\ InFlight(key) = {}]
    /\ UNCHANGED <<now, jobVars, sync_state, hist, nrows, storeVars>>

\* update_sync_state, second half: the UPDATE or the INSERT, in a connection
\* of its own.
RecordWrite(c) ==
    LET call == calls[c]
    IN  /\ call.pc = "read"
        /\ sync_state' =
              IF call.current # None
              THEN update_existing(call.key, call.current[1], call.new_items,
                                   call.outcome[1])
              ELSE insert_new(call.key, call.new_items, call.outcome[1])
        /\ calls' = [calls EXCEPT ![c] = IdleCall]
        /\ hist' = [hist EXCEPT ![call.key] =
                      LogCall(@, call.new_items,
                              IF call.current = None THEN None
                              ELSE Some(call.current[1].total_items_synced),
                              call.outcome[1].status,
                              call.current = None /\ insert_raises(call.key))]
        /\ nrows' = IF call.current # None
                     THEN nrows
                     ELSE [nrows EXCEPT ![call.key] = @ + inserted_rows(call.key)]
        /\ UNCHANGED <<now, jobVars, serial, ncalls, storeVars>>

\* delete_sync_state that marks the row instead of deleting it
DeleteState_marks(key) ==
    /\ sync_state' = IF key \in DOMAIN sync_state
                     THEN [sync_state EXCEPT ![key].last_sync_status = "deleted"]
                     ELSE sync_state
    /\ hist' = [hist EXCEPT ![key] = EmptyLog]
    /\ serial' = [serial EXCEPT ![key] = InFlight(key) = {}]
    /\ UNCHANGED <<now, jobVars, calls, ncalls, nrows, storeVars>>

\* delete_sync_state: DELETE FROM sync_state WHERE integration = ? AND
\* resource_id = ?
DeleteState(key) ==
    /\ sync_state' = [k \in DOMAIN sync_state \ {key} |-> sync_state[k]]
    /\ hist' = [hist EXCEPT ![key] = EmptyLog]
    /\ serial' = [serial EXCEPT ![key] = InFlight(key) = {}]
    /\ nrows' = [nrows EXCEPT ![key] = 0]
    /\ UNCHANGED <<now, jobVars, calls, ncalls, storeVars>>

(***************************************************************************)
(* Database.execute_write and Database.execute_many, called with the       *)
(* INSERT INTO sync_state statement.                                       *)
(***************************************************************************)
\* parameter sets: the bindings of a row, or too few bindings
ParamSets ==
    {[well_formed |-> TRUE, key |-> k, new_items |-> 50] : k \in SummaryKeys}
    \cup {[well_formed |-> FALSE, key |-> <<"", "">>, new_items |-> 0]}

\* the params_list arguments of execute_many
Batches ==
    {<<a>> : a \in ParamSets}
    \cup {<<a, b>> : a, b \in ParamSets}
    \cup {<<a, b, c>> : a, b, c \in ParamSets}

\* cursor.execute of the INSERT with one parameter set, on a table:
\* ProgrammingError for too few bindings, IntegrityError for a key that has a
\* row, otherwise the row is added
cursor_execute(table, ps) ==
    IF ~ps.well_formed \/ ps.key \in DOMAIN table
    THEN [raised |-> TRUE, table |-> table]
    ELSE [raised |-> FALSE,
          table |-> [k \in DOMAIN table \cup {ps.key} |->
                       IF k = ps.key
                       THEN [resource_name |-> None,
                             last_sync_timestamp |-> None,
                             last_sync_cursor |-> None,
                             total_items_synced |-> ps.new_items,
                             last_sync_new_items |-> ps.new_items,
                             last_sync_status |-> "success",
                             last_sync_error |-> None,
                             created_at |-> now,
                             updated_at |-> now]
                       ELSE table[k]]]

RECURSIVE cursor_executemany(_, _, _)
\* cursor.executemany from the i-th parameter set on: it stops at the first
\* one that raises; `executed` counts the parameter sets executed before
cursor_executemany(table, params_list, i) ==
    IF i > Len(params_list)
    THEN [raised |-> FALSE, table |-> table, executed |-> i - 1]
    ELSE LET r == cursor_execute(table, params_list[i])
         IN  IF r.raised
             THEN [raised |-> TRUE, table |-> table, executed |-> i - 1]
             ELSE cursor_executemany(r.table, params_list, i + 1)

\* execute_many on a connection in autocommit mode: the parameter sets
\* executed before the failing one stay
execute_many_autocommit(table, params_list) ==
    cursor_executemany(table, params_list, 1)

\* execute_many: `with self.get_connection() as conn` commits when the block
\* ends and rolls the transaction back when it raises
execute_many(table, params_list) ==
    LET r == cursor_executemany(table, params_list, 1)
    IN  IF r.raised
        THEN [raised |-> TRUE, table |-> table, executed |-> r.executed]
        ELSE r

\* execute_write: the same with one statement
execute_write(table, ps) ==
    LET r == cursor_execute(table, ps)
    IN  IF r.raised
        THEN [raised |-> TRUE, table |-> table, executed |-> 0]
        ELSE [raised |-> FALSE, table |-> r.table, executed |-> 1]

\* a caller runs execute_many
ExecuteMany(params_list) ==
    LET r == execute_many(sync_state, params_list)
    IN  /\ sync_state' = r.table
        /\ nrows' = [k \in DOMAIN nrows |->
                       IF k \in DOMAIN r.table THEN 1 ELSE 0]
        /\ write_ret' = Some([raised |-> r.raised, executed |-> r.executed])
        /\ UNCHANGED <<now, jobVars, calls, hist, serial, ncalls,
                       schema_version, inits, read_ret, stops>>

\* a caller runs execute_write
ExecuteWrite(ps) ==
    LET r == execute_write(sync_state, ps)
    IN  /\ sync_state' = r.table
        /\ nrows' = [k \in DOMAIN nrows |->
                       IF k \in DOMAIN r.table THEN 1 ELSE 0]
        /\ write_ret' = Some([raised |-> r.raised, executed |-> r.executed])
        /\ UNCHANGED <<now, jobVars, calls, hist, serial, ncalls,
                       schema_version, inits, read_ret, stops>>

(***************************************************************************)
(* should_full_sync                                                        *)
(***************************************************************************)
\* datetime.fromisoformat(text): the parsed date-time, or ValueError for a
\* text that is no ISO-8601 date-time.
fromisoformat(ts) ==
    IF ts.kind \in {"naive", "aware"}
    THEN [ok |-> TRUE, aware |-> ts.kind = "aware", day |-> ts.day]
    ELSE [ok |-> FALSE, aware |-> FALSE, day |-> 0]

\* `not state["last_sync_timestamp"]`: NULL or the empty text
NoTimestamp(row) ==
    \/ row.last_sync_timestamp = None
    \/ row.last_sync_timestamp[1].kind = "empty"

\* AgeExceeds with `age >= timedelta(days=max_age_days)`
AgeExceeds_inclusive(day, max_age_days) == now - day >= max_age_days

\* age > timedelta(days=max_age_days), age = datetime.now() - last_sync
AgeExceeds(day, max_age_days) == now - day > max_age_days

\* should_full_sync without the `last_sync_status == "failed"` branch
should_full_sync_ignores_status(key, max_age_days) ==
    LET state == get_sync_state(key)
    IN  IF state = None THEN TRUE
        ELSE IF NoTimestamp(state[1]) THEN TRUE
        ELSE LET last_sync == fromisoformat(state[1].last_sync_timestamp[1])
             IN  IF ~last_sync.ok THEN TRUE
                 ELSE IF last_sync.aware THEN TRUE
                 ELSE IF AgeExceeds(last_sync.day, max_age_days) THEN TRUE
                 ELSE FALSE

\* should_full_sync whose except clause returns False
should_full_sync_delta_on_error(key, max_age_days) ==
    LET state == get_sync_state(key)
    IN  IF state = None THEN TRUE
        ELSE IF NoTimestamp(state[1]) THEN TRUE
        ELSE IF state[1].last_sync_status = "failed" THEN TRUE
        ELSE LET last_sync == fromisoformat(state[1].last_sync_timestamp[1])
             IN  IF ~last_sync.ok THEN FALSE
                 ELSE IF last_sync.aware THEN FALSE
                 ELSE IF AgeExceeds(last_sync.day, max_age_days) THEN TRUE
                 ELSE FALSE

\* should_full_sync, the except clause at the two places that raise
should_full_sync(key, max_age_days) ==
    LET state == get_sync_state(key)
    IN  IF state = None THEN TRUE
        ELSE IF NoTimestamp(state[1]) THEN TRUE
        ELSE IF state[1].last_sync_status = "failed" THEN TRUE
        ELSE LET last_sync == fromisoformat(state[1].last_sync_timestamp[1])
             IN  IF ~last_sync.ok THEN TRUE    \* ValueError
                 ELSE IF last_sync.aware THEN TRUE    \* TypeError: naive - aware
                 ELSE IF AgeExceeds(last_sync.day, max_age_days) THEN TRUE
                 ELSE FALSE

(***************************************************************************)
(* get_all_sync_states and get_sync_summary                                *)
(***************************************************************************)
\* one row of SELECT * FROM sync_state
StateRow(key) ==
    [integration |-> key[1],
     resource_id |-> key[2],
     resource_name |-> sync_state[key].resource_name,
     last_sync_timestamp |-> sync_state[key].last_sync_timestamp,
     last_sync_cursor |-> sync_state[key].last_sync_cursor,
     total_items_synced |-> sync_state[key].total_items_synced,
     last_sync_new_items |-> sync_state[key].last_sync_new_items,
     last_sync_status |-> sync_state[key].last_sync_status,
     last_sync_error |-> sync_state[key].last_sync_error,
     created_at |-> sync_state[key].created_at,
     updated_at |-> sync_state[key].updated_at]

\* the integration arguments of get_all_sync_states; None is the default
Integrations == {None, Some(""), Some("slack"), Some("gdrive"), Some("jira")}

\* `if integration:` of get_all_sync_states: None and the empty string are
\* false
TruthyStr(integration) == integration # None /\ integration[1] # ""

\* get_all_sync_states: SELECT * FROM sync_state WHERE integration = ? ORDER
\* BY updated_at DESC when `integration` is true, SELECT * FROM sync_state
\* ORDER BY updated_at DESC otherwise. The lists the query can return: rows of
\* equal updated_at come in any order.
get_all_sync_states(integration) ==
    LET selected == IF TruthyStr(integration)
                    THEN {k \in DOMAIN sync_state : k[1] = integration[1]}
                    ELSE DOMAIN sync_state
        n == Cardinality(selected)
        orders == {o \in [1..n -> selected] :
                     /\ \A a, b \in 1..n : a # b => o[a] # o[b]
                     /\ \A a, b \in 1..n :
                           a < b => sync_state[o[a]].updated_at
                                        >= sync_state[o[b]].updated_at}
    IN  {[a \in 1..n |-> StateRow(o[a])] : o \in orders}

\* the entry of an integration seen for the first time
NewIntegration ==
    [resource_count |-> 0, total_items |-> 0, successful |-> 0, failed |-> 0]

\* add_state that adds the items of successful rows only
add_state_skips_failed(summary, state) ==
    LET integration == state.integration
        by == IF integration \in DOMAIN summary.by_integration
              THEN summary.by_integration
              ELSE [i \in DOMAIN summary.by_integration \cup {integration} |->
                      IF i = integration THEN NewIntegration
                      ELSE summary.by_integration[i]]
        ok == state.last_sync_status = "success"
        items == IF ok THEN state.total_items_synced ELSE 0
    IN  [summary EXCEPT
            !.by_integration =
                [by EXCEPT ![integration] =
                    [@ EXCEPT !.resource_count = @ + 1,
                              !.total_items = @ + items,
                              !.successful = IF ok THEN @ + 1 ELSE @,
                              !.failed = IF ok THEN @ ELSE @ + 1]],
            !.total_items_synced = @ + items]

\* add_state with `else` in place of `elif ... == "failed"`: every row that is
\* not successful counts as failed
add_state_else_failed(summary, state) ==
    LET integration == state.integration
        by == IF integration \in DOMAIN summary.by_integration
              THEN summary.by_integration
              ELSE [i \in DOMAIN summary.by_integration \cup {integration} |->
                      IF i = integration THEN NewIntegration
                      ELSE summary.by_integration[i]]
        ok == state.last_sync_status = "success"
    IN  [summary EXCEPT
            !.by_integration =
                [by EXCEPT ![integration] =
                    [@ EXCEPT !.resource_count = @ + 1,
                              !.total_items = @ + state.total_items_synced,
                              !.successful = IF ok THEN @ + 1 ELSE @,
                              !.failed = IF ok THEN @ ELSE @ + 1]],
            !.total_items_synced = @ + state.total_items_synced,
            !.recent_failures =
                IF ok
                THEN @
                ELSE Append(@, [integration |-> integration,
                                resource_id |-> state.resource_id,
                                resource_name |-> state.resource_name,
                                error |-> state.last_sync_error,
                                timestamp |-> state.updated_at])]

\* the body of the loop `for state in all_states`
add_state(summary, state) ==
    LET integration == state.integration
        by == IF integration \in DOMAIN summary.by_integration
              THEN summary.by_integration
              ELSE [i \in DOMAIN summary.by_integration \cup {integration} |->
                      IF i = integration THEN NewIntegration
                      ELSE summary.by_integration[i]]
        status == state.last_sync_status
    IN  [summary EXCEPT
            !.by_integration =
                [by EXCEPT ![integration] =
                    [@ EXCEPT !.resource_count = @ + 1,
                              !.total_items = @ + state.total_items_synced,
                              !.successful =
                                  IF status = "success" THEN @ + 1 ELSE @,
                              !.failed =
                                  IF status = "failed" THEN @ + 1 ELSE @]],
            !.total_items_synced = @ + state.total_items_synced,
            !.recent_failures =
                IF status = "failed"
                THEN Append(@, [integration |-> integration,
                                resource_id |-> state.resource_id,
                                resource_name |-> state.resource_name,
                                error |-> state.last_sync_error,
                                timestamp |-> state.updated_at])
                ELSE @]

RECURSIVE summarize_from(_, _, _)
\* the loop of get_sync_summary from the i-th state on
summarize_from(summary, all_states, i) ==
    IF i > Len(all_states)
    THEN summary
    ELSE summarize_from(add_state(summary, all_states[i]), all_states, i + 1)

\* get_sync_summary, on the list get_all_sync_states has returned
get_sync_summary(all_states) ==
    summarize_from([total_resources |-> Len(all_states),
                    by_integration |-> <<>>,
                    total_items_synced |-> 0,
                    recent_failures |-> <<>>],
                   all_states, 1)

(***************************************************************************)
(* The reads of the sync-state tracker, each a SELECT and nothing else.    *)
(***************************************************************************)
\* a caller runs get_sync_state(integration, resource_id)
GetSyncState(key) ==
    /\ read_ret' = Some(<<"get_sync_state", key, get_sync_state(key)>>)
    /\ UNCHANGED <<now, jobVars, sync_state, calls, hist, serial, ncalls, nrows,
                   schema_version, inits, write_ret, stops>>

\* a caller runs should_full_sync(integration, resource_id, max_age_days)
ShouldFullSync(key, max_age_days) ==
    /\ read_ret' = Some(<<"should_full_sync", <<key, max_age_days>>,
                          should_full_sync(key, max_age_days)>>)
    /\ UNCHANGED <<now, jobVars, sync_state, calls, hist, serial, ncalls, nrows,
                   schema_version, inits, write_ret, stops>>

\* a caller runs get_all_sync_states(integration)
GetAllSyncStates(integration) ==
    /\ \E all_states \in get_all_sync_states(integration) :
          read_ret' = Some(<<"get_all_sync_states", integration, all_states>>)
    /\ UNCHANGED <<now, jobVars, sync_state, calls, hist, serial, ncalls, nrows,
                   schema_version, inits, write_ret, stops>>

\* a caller runs get_sync_summary()
GetSyncSummary ==
    /\ \E all_states \in get_all_sync_states(None) :
          read_ret' = Some(<<"get_sync_summary", <<>>,
                             get_sync_summary(all_states)>>)
    /\ UNCHANGED <<now, jobVars, sync_state, calls, hist, serial, ncalls, nrows,
                   schema_version, inits, write_ret, stops>>

(***************************************************************************)
(* The specifications.                                                     *)
(***************************************************************************)
Init ==
    /\ now = 0
    /\ sync_jobs = <<>>
    /\ next_id = 1
    /\ active_jobs = <<>>
    /\ tasks = <<>>
    /\ cancel_ret = <<>>
    /\ sync_state = <<>>
    /\ calls = [c \in Callers |-> IdleCall]
    /\ hist = [k \in Keys \cup SummaryKeys |-> EmptyLog]
    /\ serial = [k \in Keys \cup SummaryKeys |-> TRUE]
    /\ ncalls = 0
    /\ nrows = [k \in Keys \cup SummaryKeys |-> 0]
    /\ schema_version = create_tables(<<>>)
    /\ inits = <<FALSE>>
    /\ write_ret = None
    /\ read_ret = None
    /\ stops = <<>>

\* The job manager of one process.
Next ==
    \/ CreateJob
    \/ \E j \in JobIds : StartJob(j)
    \/ \E j \in JobIds : CancelJob(j)
    \/ \E d \in PurgeDays : CleanupOldJobs(d)
    \/ \E t \in TaskIds : TaskStep(t)
    \/ Tick

Spec == Init /\ [][Next]_vars

\* The event loop runs every task that is ready.
FairSpec == Spec /\ \A t \in TaskIds : WF_vars(TaskStep(t))

\* The job manager within one day, its work functions reporting one progress
\* value.
LifecycleNext ==
    \/ CreateJob
    \/ \E j \in JobIds : StartJob(j)
    \/ \E j \in JobIds : CancelJob(j)
    \/ \E t \in TaskIds :
          \/ TaskStart(t)
          \/ TaskStartCancelled(t)
          \/ WorkProgress(t, 50, Some(3))
          \/ \E r \in WorkResults : WorkReturn(t, r)
          \/ \E m \in ErrorMessages : WorkRaise(t, m)
          \/ WorkCancelled(t)
          \/ WorkIntercepts(t)

LifecycleSpec == Init /\ [][LifecycleNext]_vars

\* The job manager within one day, its work functions reporting one
\* progress value, returning one result or raising, and not catching
\* CancelledError.
IndependenceNext ==
    \/ CreateJob
    \/ \E j \in JobIds : StartJob(j)
    \/ \E j \in JobIds : CancelJob(j)
    \/ \E t \in TaskIds :
          \/ TaskStart(t)
          \/ TaskStartCancelled(t)
          \/ WorkProgress(t, 50, Some(3))
          \/ WorkReturn(t, PyDict)
          \/ \E m \in ErrorMessages : WorkRaise(t, m)
          \/ WorkCancelled(t)

IndependenceSpec == Init /\ [][IndependenceNext]_vars

\* The job manager within one day, up to the point where a cancelled task
\* runs again, its work functions reporting every progress value and count.
ProgressNext ==
    \/ CreateJob
    \/ \E j \in JobIds : StartJob(j)
    \/ \E j \in JobIds : CancelJob(j)
    \/ \E t \in TaskIds :
          \/ TaskStart(t)
          \/ \E p \in Fractions, i \in ProgressCounts : WorkProgress(t, p, i)
          \/ WorkReturn(t, PyDict)

ProgressSpec == Init /\ [][ProgressNext]_vars

\* The job manager of a process that stops, and of the process started on
\* the same store after it.
RestartNext ==
    \/ CreateJob
    \/ \E j \in JobIds : StartJob(j)
    \/ \E j \in JobIds : CancelJob(j)
    \/ \E d \in PurgeDays : CleanupOldJobs(d)
    \/ \E t \in TaskIds :
          \/ TaskStart(t)
          \/ WorkProgress(t, 50, Some(3))
          \/ WorkReturn(t, PyDict)
    \/ ProcessRestart
    \/ Tick

RestartSpec == Init /\ [][RestartNext]_vars

\* The job manager within one day, its work functions returning every
\* serializable value.
ResultNext ==
    \/ CreateJob
    \/ \E j \in JobIds : StartJob(j)
    \/ \E t \in TaskIds :
          \/ TaskStart(t)
          \/ \E r \in SerializableResults : WorkReturn(t, r)

ResultSpec == Init /\ [][ResultNext]_vars

\* The job manager over the days, up to the point where a cancelled task runs
\* again, its work functions only returning or raising.
PurgeNext ==
    \/ CreateJob
    \/ \E j \in JobIds : StartJob(j)
    \/ \E j \in JobIds : CancelJob(j)
    \/ \E d \in PurgeDays : CleanupOldJobs(d)
    \/ \E t \in TaskIds :
          \/ TaskStart(t)
          \/ WorkReturn(t, PyDict)
          \/ \E m \in ErrorMessages : WorkRaise(t, m)
    \/ Tick

PurgeSpec == Init /\ [][PurgeNext]_vars

\* Database objects constructed again and again on a store that jobs and
\* sync states are written to.
InitializeNext ==
    \/ Initialize
    \/ CreateJob
    \/ \E j \in JobIds : StartJob(j)
    \/ \E k \in WatermarkKeys, o \in Outcomes : RecordRead(1, k, 2, o)
    \/ RecordWrite(1)
    \/ Tick

InitializeSpec == Init /\ [][InitializeNext]_vars

\* Callers of execute_write and execute_many on table sync_state.
WriteNext ==
    \/ \E ps \in ParamSets : ExecuteWrite(ps)
    \/ \E params_list \in Batches : ExecuteMany(params_list)
    \/ \E k \in SummaryKeys : DeleteState(k)
    \/ Tick

WriteSpec == Init /\ [][WriteNext]_vars

\* The sync-state tracker and its concurrent callers.
SyncNext ==
    \/ \E c \in Callers, k \in Keys, n \in ItemCounts, o \in Outcomes :
          RecordRead(c, k, n, o)
    \/ \E c \in Callers : RecordWrite(c)
    \/ \E k \in Keys : DeleteState(k)
    \/ Tick

SyncSpec == Init /\ [][SyncNext]_vars

\* The sync-state tracker and its concurrent callers on one key, all calls
\* within one day.
RaceNext ==
    \/ \E c \in Callers, n \in ItemCounts, o \in Outcomes :
          \E k \in WatermarkKeys : RecordRead(c, k, n, o)
    \/ \E c \in Callers : RecordWrite(c)
    \/ \E k \in WatermarkKeys : DeleteState(k)

RaceSpec == Init /\ [][RaceNext]_vars

\* The sync-state tracker with one caller at a time, over every kind of
\* watermark and status.
WatermarkNext ==
    \/ \E k \in WatermarkKeys, o \in WatermarkOutcomes : RecordRead(1, k, 2, o)
    \/ RecordWrite(1)
    \/ \E k \in WatermarkKeys : DeleteState(k)
    \/ Tick

WatermarkSpec == Init /\ [][WatermarkNext]_vars

\* The sync-state tracker with one caller at a time, over every
\* resource_name, cursor and error.
RowNext ==
    \/ \E k \in WatermarkKeys, o \in RowOutcomes : RecordRead(1, k, 2, o)
    \/ RecordWrite(1)
    \/ \E k \in WatermarkKeys : DeleteState(k)
    \/ Tick

RowSpec == Init /\ [][RowNext]_vars

\* The sync-state tracker with one caller at a time, over the resources of
\* two integrations, all calls within one day.
SummaryNext ==
    \/ \E k \in SummaryKeys, n \in SummaryCounts, o \in Outcomes :
          RecordRead(1, k, n, o)
    \/ RecordWrite(1)
    \/ \E k \in SummaryKeys : DeleteState(k)

SummarySpec == Init /\ [][SummaryNext]_vars

\* The sync-state tracker with one caller at a time, over the resources of
\* two integrations and every status, all calls within one day.
StatusNext ==
    \/ \E k \in SummaryKeys, o \in SummaryOutcomes : RecordRead(1, k, 50, o)
    \/ RecordWrite(1)
    \/ \E k \in SummaryKeys : DeleteState(k)

StatusSpec == Init /\ [][StatusNext]_vars

\* The sync-state tracker with one writer at a time and its readers, over the
\* resources of two integrations, all calls within one day.
ReadNext ==
    \/ \E k \in SummaryKeys, o \in Outcomes : RecordRead(1, k, 50, o)
    \/ RecordWrite(1)
    \/ \E k \in SummaryKeys : DeleteState(k)
    \/ \E k \in SummaryKeys : GetSyncState(k)
    \/ \E k \in SummaryKeys : ShouldFullSync(k, MaxAgeDefault)
    \/ \E i \in {None, Some("slack")} : GetAllSyncStates(i)
    \/ GetSyncSummary

ReadSpec == Init /\ [][ReadNext]_vars

\* The sync-state tracker with one writer at a time and the callers of
\* get_all_sync_states, over the days.
ListNext ==
    \/ \E k \in SummaryKeys, o \in Outcomes : RecordRead(1, k, 50, o)
    \/ RecordWrite(1)
    \/ \E k \in SummaryKeys : DeleteState(k)
    \/ \E i \in Integrations : GetAllSyncStates(i)
    \/ Tick

ListSpec == Init /\ [][ListNext]_vars

(***************************************************************************)
(* Claims about the job manager.                                           *)
(***************************************************************************)
\* the order pending < running < {completed, failed, cancelled}
StatusRank(status) ==
    CASE status = "pending" -> 0
      [] status = "running" -> 1
      [] status \in Terminal -> 2

HasRow(j) == j \in DOMAIN sync_jobs

IsTerminal(j) == HasRow(j) /\ sync_jobs[j].status \in Terminal

\* C1: no step moves the stored status of a job backwards in the order
\* pending < running < {completed, failed, cancelled}.
C1_StatusNeverMovesBack ==
    [][\A j \in JobIds :
          (HasRow(j) /\ j \in DOMAIN sync_jobs')
              => StatusRank(sync_jobs'[j].status) >= StatusRank(sync_jobs[j].status)]_vars

\* C2: once the stored status of a job is completed, failed or cancelled, no
\* step changes any field of its row.
C2_TerminalRowNeverChanges ==
    [][\A j \in JobIds :
          (IsTerminal(j) /\ j \in DOMAIN sync_jobs')
              => sync_jobs'[j] = sync_jobs[j]]_vars

\* C3: every job whose stored status is completed, failed or cancelled has
\* stored progress 1.0.
C3_TerminalProgressIsOne ==
    \A j \in JobIds : IsTerminal(j) => sync_jobs[j].progress = ProgressOne

\* C4: the stored progress of every job lies in [0.0, 1.0].
C4_ProgressInUnitInterval ==
    \A j \in JobIds :
        HasRow(j) => /\ sync_jobs[j].progress >= ProgressZero
                     /\ sync_jobs[j].progress <= ProgressOne

\* C5: cancel_job(job_id) returns False and writes nothing whenever job_id has
\* no row or its stored status is already completed, failed or cancelled.
C5_CancelOfFinishedJobReturnsFalse ==
    [][\A j \in JobIds :
          (CancelJob(j) /\ (~HasRow(j) \/ IsTerminal(j)))
              => (cancel_ret' = <<j, FALSE>> /\ sync_jobs' = sync_jobs)]_vars

TasksOf(j) == {t \in DOMAIN tasks : tasks[t].job = j}

\* job j was started and every execution started for it has ended
ExecutionEnded(j) ==
    /\ TasksOf(j) # {}
    /\ \A t \in TasksOf(j) : tasks[t].pc = "done"

\* C6: once the execution of a started job has ended (returned, raised or was
\* cancelled, at whatever point the cancel request arrived), the registry
\* eventually holds no handle for its job id.
C6_HandleEventuallyRemoved ==
    \A j \in JobIds : [](ExecutionEnded(j) => <>(j \notin DOMAIN active_jobs))

(***************************************************************************)
(* Claims about the sync-state tracker.                                    *)
(***************************************************************************)
HasState(k) == k \in DOMAIN sync_state

LastCall(k) == hist[k].recent[Len(hist[k].recent)]

\* C7: after non-interleaved update_sync_state calls on one key, the first of
\* them on a key without a row and no delete in between, total_items_synced is
\* the sum of their new_items and last_sync_new_items is the last of them.
C7_SerialCallsAccumulate ==
    \A k \in Keys :
        (serial[k] /\ hist[k].recent # <<>>)
            => /\ HasState(k)
               /\ sync_state[k].total_items_synced = hist[k].sum
               /\ sync_state[k].last_sync_new_items = LastCall(k).new_items

\* two or more serial calls were written on a key, and the total is not just
\* the last count
C7_Accumulated ==
    \E k \in Keys :
        /\ serial[k]
        /\ Len(hist[k].recent) = 2
        /\ HasState(k)
        /\ sync_state[k].total_items_synced = hist[k].sum
        /\ sync_state[k].total_items_synced # sync_state[k].last_sync_new_items

\* the last two calls written on k had both read the same total of a row
ReadSameTotal(k) ==
    /\ HasState(k)
    /\ Len(hist[k].recent) = 2
    /\ hist[k].recent[1].base # None
    /\ hist[k].recent[1].base = hist[k].recent[2].base

\* C8: when two update_sync_state calls on one key both read the same total T
\* before either writes, the total after both writes is T plus the count of
\* the call that wrote last: the other count is lost.
C8_RacingCallsKeepOneCount ==
    \A k \in Keys :
        ReadSameTotal(k)
            => sync_state[k].total_items_synced =
                   LastCall(k).base[1] + LastCall(k).new_items

\* a lost update: both calls reported a positive count and the total holds
\* only one of them
C8_LostUpdate ==
    \E k \in Keys :
        /\ ReadSameTotal(k)
        /\ hist[k].recent[1].new_items > 0
        /\ hist[k].recent[2].new_items > 0
        /\ sync_state[k].total_items_synced
              < hist[k].recent[1].base[1] + hist[k].recent[1].new_items
                    + hist[k].recent[2].new_items

\* C9: total_items_synced of a key never decreases from one call to the next.
C9_TotalNeverDecreases ==
    [][\A k \in Keys :
          (HasState(k) /\ k \in DOMAIN sync_state')
              => sync_state'[k].total_items_synced
                     >= sync_state[k].total_items_synced]_vars

\* the watermark of k's row is a date-time and its age exceeds max_age_days
WatermarkTooOld(k, max_age_days) ==
    /\ HasState(k)
    /\ ~NoTimestamp(sync_state[k])
    /\ sync_state[k].last_sync_timestamp[1].kind \in {"naive", "aware"}
    /\ now - sync_state[k].last_sync_timestamp[1].day > max_age_days

\* the watermark of k's row cannot be read as a date-time that compares with
\* datetime.now(): no ISO-8601 text, or one that carries a UTC offset
WatermarkUnreadable(k) ==
    /\ HasState(k)
    /\ ~NoTimestamp(sync_state[k])
    /\ sync_state[k].last_sync_timestamp[1].kind # "naive"

FourReasons(k, max_age_days) ==
    \/ ~HasState(k)
    \/ NoTimestamp(sync_state[k])
    \/ sync_state[k].last_sync_status = "failed"
    \/ WatermarkTooOld(k, max_age_days)

Writing(c, k) == calls[c].pc = "read" /\ calls[c].key = k

\* the INSERT of caller c will be rejected by UNIQUE(integration,
\* resource_id): update_sync_state raises and records nothing
InsertRejected(c) ==
    /\ calls[c].pc = "read"
    /\ calls[c].current = None
    /\ calls[c].key \in DOMAIN sync_state

\* C11: when an update_sync_state call with status failed has been written on
\* a key, the row has status failed and, on a row it had read, the total it
\* had read plus its new_items; the status stays failed until another call is
\* written on the key; and should_full_sync is true for every max_age_days
\* while the status is failed.
C11_FailedForcesFullSync ==
    [][\A k \in Keys :
          /\ \A c \in Callers :
                (/\ RecordWrite(c)
                 /\ Writing(c, k)
                 /\ ~InsertRejected(c)
                 /\ calls[c].outcome[1].status = "failed"
                 /\ k \in DOMAIN sync_state')
                    => /\ sync_state'[k].last_sync_status = "failed"
                       /\ sync_state'[k].total_items_synced =
                              (IF calls[c].current = None THEN 0
                               ELSE calls[c].current[1].total_items_synced)
                                  + calls[c].new_items
          /\ (/\ HasState(k)
              /\ sync_state[k].last_sync_status = "failed"
              /\ k \in DOMAIN sync_state'
              /\ ~\E c \in Callers : RecordWrite(c) /\ Writing(c, k))
                 => sync_state'[k].last_sync_status = "failed"
          /\ (/\ k \in DOMAIN sync_state'
              /\ sync_state'[k].last_sync_status = "failed")
                 => \A m \in MaxAges : should_full_sync(k, m)']_vars

\* three calls were written on a key, the last one failed with a fresh
\* watermark: the total holds all three counts and a full pass is due
C11_FailedAfterSuccess ==
    \E k \in Keys :
        /\ HasState(k)
        /\ serial[k]
        /\ hist[k].sum = 6
        /\ sync_state[k].total_items_synced = 6
        /\ sync_state[k].last_sync_status = "failed"
        /\ sync_state[k].last_sync_timestamp = Some(TsFresh)
        /\ should_full_sync(k, MaxAgeDefault)

\* C12: right after a written update_sync_state call with status success and
\* a last_timestamp, should_full_sync with the default max_age_days is false
\* for the key, whatever the last_timestamp is; for a key without a row it is
\* true.
C12_JustSyncedIsNotFull ==
    [][\A k \in Keys :
          /\ \A c \in Callers :
                (/\ RecordWrite(c)
                 /\ Writing(c, k)
                 /\ ~InsertRejected(c)
                 /\ calls[c].outcome[1].status = "success"
                 /\ calls[c].outcome[1].last_timestamp # None
                 /\ calls[c].outcome[1].last_timestamp # Some(TsEmpty)
                 /\ k \in DOMAIN sync_state')
                    => ~should_full_sync(k, MaxAgeDefault)'
          /\ ~HasState(k) => should_full_sync(k, MaxAgeDefault)]_vars

\* C13: after an update_sync_state call is written on a key that has a row,
\* the row's last_sync_timestamp, last_sync_cursor, last_sync_status and
\* last_sync_error are the call's arguments, its resource_name is the
\* resource_name the call supplied, and its created_at is unchanged.
C13_UpdateStoresEveryArgument ==
    [][\A k \in Keys, c \in Callers :
          (/\ RecordWrite(c)
           /\ Writing(c, k)
           /\ calls[c].current # None
           /\ k \in DOMAIN sync_state')
              => LET o == calls[c].outcome[1]
                     row == sync_state'[k]
                 IN  /\ row.last_sync_timestamp = o.last_timestamp
                     /\ row.last_sync_cursor = o.cursor
                     /\ row.last_sync_status = o.status
                     /\ row.last_sync_error = o.error
                     /\ o.resource_name # None
                            => row.resource_name = o.resource_name
                     /\ row.created_at = sync_state[k].created_at]_vars

\* C14: after an update_sync_state call with status success and no error is
\* written on a key, the row read by get_sync_state has no last_sync_error;
\* and the last_sync_error of a row changes only when a call is written on
\* its key.
C14_SuccessClearsError ==
    [][\A k \in Keys :
          /\ \A c \in Callers :
                (/\ RecordWrite(c)
                 /\ Writing(c, k)
                 /\ ~InsertRejected(c)
                 /\ calls[c].outcome[1].status = "success"
                 /\ calls[c].outcome[1].error = None
                 /\ k \in DOMAIN sync_state')
                    => get_sync_state(k)'[1].last_sync_error = None
          /\ (/\ HasState(k)
              /\ k \in DOMAIN sync_state'
              /\ ~\E c \in Callers : RecordWrite(c) /\ Writing(c, k))
                 => sync_state'[k].last_sync_error
                        = sync_state[k].last_sync_error]_vars

\* a failed call and then a successful call were written on a key: the error
\* of the first is gone
C14_ErrorCleared ==
    \E k \in Keys :
        /\ HasState(k)
        /\ serial[k]
        /\ Len(hist[k].recent) = 2
        /\ hist[k].recent[1].status = "failed"
        /\ hist[k].recent[2].status = "success"
        /\ sync_state[k].last_sync_status = "success"
        /\ sync_state[k].last_sync_error = None

\* C15: in every state, whatever the interleaving of update_sync_state and
\* delete_sync_state calls, table sync_state holds at most one row for each
\* (integration, resource_id), the row that get_sync_state reads.
C15_OneRowPerKey ==
    \A k \in Keys :
        /\ nrows[k] <= 1
        /\ nrows[k] = 1 <=> HasState(k)

\* two calls that had both read no row were written on a key, and the key has
\* one row: the second INSERT was rejected
C15_SecondInsertRejected ==
    \E k \in Keys :
        /\ Len(hist[k].recent) = 2
        /\ hist[k].recent[1].base = None
        /\ hist[k].recent[2].base = None
        /\ nrows[k] = 1

(***************************************************************************)
(* Further claims about the job manager.                                   *)
(***************************************************************************)
\* the row of j as cancel_job writes it
CancelledByUser(j) ==
    /\ sync_jobs[j].status = "cancelled"
    /\ sync_jobs[j].error = Some("Cancelled by user")
    /\ sync_jobs[j].progress = ProgressOne

\* C16: cancel_job(job_id) with a task registered for job_id returns True,
\* leaves the row with status cancelled, error "Cancelled by user" and
\* progress 1.0, and requests the cancellation of the task; and no step other
\* than a step of a work function of the job changes these fields afterwards.
C16_CancelWithHandle ==
    [][\A j \in JobIds :
          /\ (CancelJob(j) /\ j \in DOMAIN active_jobs)
                => /\ cancel_ret' = <<j, TRUE>>
                   /\ HasRow(j) => CancelledByUser(j)'
                   /\ tasks[active_jobs[j]].pc # "done"
                          => tasks'[active_jobs[j]].must_cancel
          /\ (/\ HasRow(j)
              /\ CancelledByUser(j)
              /\ j \in DOMAIN sync_jobs'
              /\ ~\E t \in TasksOf(j) : TaskStep(t))
                 => CancelledByUser(j)']_vars

\* C17: when the work function of a task raises an Exception, the step leaves
\* the job's row with status failed, progress 1.0, the exception's message as
\* error and no result, and ends the task; every other job's row and handle,
\* every other task and the value cancel_job returned stay as they are.
C17_RaiseIsRecordedAndContained ==
    [][\A t \in TaskIds, m \in ErrorMessages :
          WorkRaise(t, m)
              => LET j == tasks[t].job
                 IN  /\ HasRow(j)
                        => /\ sync_jobs'[j].status = "failed"
                           /\ sync_jobs'[j].progress = ProgressOne
                           /\ sync_jobs'[j].error = Some(m)
                           /\ sync_jobs'[j].result = None
                     /\ tasks'[t].pc = "done"
                     /\ \A o \in JobIds \ {j} :
                           /\ HasRow(o) <=> o \in DOMAIN sync_jobs'
                           /\ HasRow(o) => sync_jobs'[o] = sync_jobs[o]
                           /\ o \in DOMAIN active_jobs
                                 <=> o \in DOMAIN active_jobs'
                           /\ o \in DOMAIN active_jobs
                                 => active_jobs'[o] = active_jobs[o]
                     /\ \A u \in DOMAIN tasks \ {t} : tasks'[u] = tasks[u]
                     /\ cancel_ret' = cancel_ret]_vars

\* the work function of one job has raised and its row is failed with the
\* message, while the task of another job is still at an await with its row
\* running and its handle registered
C17_FailedBesideRunning ==
    \E t, u \in DOMAIN tasks :
        /\ tasks[t].job # tasks[u].job
        /\ tasks[t].pc = "done"
        /\ HasRow(tasks[t].job)
        /\ sync_jobs[tasks[t].job].status = "failed"
        /\ sync_jobs[tasks[t].job].error = Some("boom")
        /\ sync_jobs[tasks[t].job].result = None
        /\ tasks[t].job \notin DOMAIN active_jobs
        /\ tasks[u].pc = "awaiting"
        /\ HasRow(tasks[u].job)
        /\ sync_jobs[tasks[u].job].status = "running"
        /\ tasks[u].job \in DOMAIN active_jobs

\* C18: in every state a row of sync_jobs with a result has status completed,
\* a row with an error has status failed or cancelled, and a pending or
\* running row has neither.
C18_ResultAndErrorMatchStatus ==
    \A j \in JobIds :
        HasRow(j)
            => /\ sync_jobs[j].result # None
                     => sync_jobs[j].status = "completed"
               /\ sync_jobs[j].error # None
                     => sync_jobs[j].status \in {"failed", "cancelled"}
               /\ sync_jobs[j].status \in {"pending", "running"}
                     => /\ sync_jobs[j].result = None
                        /\ sync_jobs[j].error = None

\* C19: create_job returns an identifier that no row has, and adds one row
\* with that identifier, status pending, progress 0.0, processed_items 0 and
\* no result, error or completed_at; it changes no other row, no handle and
\* no task; and a pending row stays pending in every step that is not a
\* start_job for its identifier.
C19_CreateAddsOnePendingRow ==
    [][/\ CreateJob
          => /\ next_id \notin DOMAIN sync_jobs
             /\ DOMAIN sync_jobs' = DOMAIN sync_jobs \cup {next_id}
             /\ \A j \in DOMAIN sync_jobs : sync_jobs'[j] = sync_jobs[j]
             /\ sync_jobs'[next_id].status = "pending"
             /\ sync_jobs'[next_id].progress = ProgressZero
             /\ sync_jobs'[next_id].processed_items = 0
             /\ sync_jobs'[next_id].result = None
             /\ sync_jobs'[next_id].error = None
             /\ sync_jobs'[next_id].completed_at = None
             /\ active_jobs' = active_jobs
             /\ tasks' = tasks
       /\ \A j \in JobIds :
             (HasRow(j) /\ sync_jobs[j].status = "pending" /\ ~StartJob(j))
                 => /\ j \in DOMAIN sync_jobs'
                    /\ sync_jobs'[j].status = "pending"
                    /\ j \notin DOMAIN active_jobs']_vars

\* a created job beside a running one: its row is pending and untouched, it
\* has no handle and no task
C19_PendingBesideRunning ==
    \E j, o \in JobIds :
        /\ o < j
        /\ HasRow(o)
        /\ sync_jobs[o].status = "running"
        /\ o \in DOMAIN active_jobs
        /\ HasRow(j)
        /\ sync_jobs[j].status = "pending"
        /\ sync_jobs[j].progress = ProgressZero
        /\ sync_jobs[j].result = None
        /\ sync_jobs[j].error = None
        /\ sync_jobs[j].completed_at = None
        /\ j \notin DOMAIN active_jobs
        /\ TasksOf(j) = {}

RECURSIVE SumOfTotals(_)
\* the sum of total_items_synced over the rows of a set of keys
SumOfTotals(keys) ==
    IF keys = {} THEN 0
    ELSE LET k == CHOOSE x \in keys : TRUE
         IN  sync_state[k].total_items_synced + SumOfTotals(keys \ {k})

\* the keys of the rows of one integration
KeysOf(integration) == {k \in DOMAIN sync_state : k[1] = integration}

RECURSIVE SumOver(_, _, _)
\* the sum of one field over the entries of by_integration
SumOver(by, field, names) ==
    IF names = {} THEN 0
    ELSE LET i == CHOOSE x \in names : TRUE
         IN  by[i][field] + SumOver(by, field, names \ {i})

\* C20: whatever rows table sync_state holds, get_sync_summary returns
\* total_resources = the number of rows, total_items_synced = the sum of
\* their total_items_synced, and for each integration resource_count and
\* total_items = the count and the sum over the integration's rows; the
\* entries of by_integration add up to the two global values.
C20_SummaryCountsAndSums ==
    \A all_states \in get_all_sync_states(None) :
        LET summary == get_sync_summary(all_states)
            by == summary.by_integration
        IN  /\ summary.total_resources = Cardinality(DOMAIN sync_state)
            /\ summary.total_items_synced = SumOfTotals(DOMAIN sync_state)
            /\ DOMAIN by = {k[1] : k \in DOMAIN sync_state}
            /\ \A i \in DOMAIN by :
                  /\ by[i].resource_count = Cardinality(KeysOf(i))
                  /\ by[i].total_items = SumOfTotals(KeysOf(i))
            /\ SumOver(by, "resource_count", DOMAIN by)
                  = summary.total_resources
            /\ SumOver(by, "total_items", DOMAIN by)
                  = summary.total_items_synced

\* the rows of test_sync_summary, the last of them failed: three resources and
\* 350 items, slack with 2 and 150, gdrive with 1 and 200
C20_ThreeResources ==
    /\ DOMAIN sync_state = SummaryKeys
    /\ sync_state[<<"gdrive", "F789">>].last_sync_status = "failed"
    /\ \E all_states \in get_all_sync_states(None) :
          LET summary == get_sync_summary(all_states)
          IN  /\ summary.total_resources = 3
              /\ summary.total_items_synced = 350
              /\ summary.by_integration["slack"].resource_count = 2
              /\ summary.by_integration["slack"].total_items = 150
              /\ summary.by_integration["gdrive"].resource_count = 1
              /\ summary.by_integration["gdrive"].total_items = 200

\* the keys of the rows with one status, of all integrations or of one
KeysWithStatus(status) ==
    {k \in DOMAIN sync_state : sync_state[k].last_sync_status = status}

\* C21: the recent_failures of get_sync_summary hold exactly one entry for each
\* row whose last_sync_status is failed and none for any other row, and the
\* failed and successful counters of each integration are the numbers of its
\* rows with status failed and success; in_progress rows count in neither.
C21_FailuresAndCounters ==
    \A all_states \in get_all_sync_states(None) :
        LET summary == get_sync_summary(all_states)
            by == summary.by_integration
            failures == summary.recent_failures
        IN  /\ Len(failures) = Cardinality(KeysWithStatus("failed"))
            /\ {<<failures[a].integration, failures[a].resource_id>> :
                   a \in 1..Len(failures)} = KeysWithStatus("failed")
            /\ \A i \in DOMAIN by :
                  /\ by[i].failed
                        = Cardinality(KeysOf(i) \cap KeysWithStatus("failed"))
                  /\ by[i].successful
                        = Cardinality(KeysOf(i) \cap KeysWithStatus("success"))

\* slack has a failed and an in_progress row, gdrive a successful one: one
\* failure is listed, and the in_progress row is in neither counter of slack
C21_OneOfEachStatus ==
    /\ DOMAIN sync_state = SummaryKeys
    /\ sync_state[<<"slack", "C123456">>].last_sync_status = "failed"
    /\ sync_state[<<"slack", "C456">>].last_sync_status = "in_progress"
    /\ sync_state[<<"gdrive", "F789">>].last_sync_status = "success"
    /\ \E all_states \in get_all_sync_states(None) :
          LET summary == get_sync_summary(all_states)
          IN  /\ Len(summary.recent_failures) = 1
              /\ summary.recent_failures[1].resource_id = "C123456"
              /\ summary.by_integration["slack"].resource_count = 2
              /\ summary.by_integration["slack"].failed = 1
              /\ summary.by_integration["slack"].successful = 0

\* C22: the recent_failures of get_sync_summary stay below a limit that does
\* not grow with the number of failed resources: the list is shorter than the
\* number of resources there are.
C22_RecentFailuresBounded ==
    \A all_states \in get_all_sync_states(None) :
        Len(get_sync_summary(all_states).recent_failures)
            < Cardinality(SummaryKeys)

\* the terminal rows created more than `days` days ago
OldTerminal(days) ==
    {j \in DOMAIN sync_jobs :
        /\ sync_jobs[j].status \in {"completed", "failed", "cancelled"}
        /\ now - sync_jobs[j].created_at > days}

\* C23: cleanup_old_jobs(days) deletes exactly the rows whose status is
\* completed, failed or cancelled and whose created_at is more than `days`
\* days ago, returns their number, and leaves every other row, pending,
\* running or younger, as it is.
C23_PurgeRemovesOldTerminalRows ==
    [][\A d \in PurgeDays :
          CleanupOldJobs(d)
              => /\ DOMAIN sync_jobs' = DOMAIN sync_jobs \ OldTerminal(d)
                 /\ \A j \in DOMAIN sync_jobs' : sync_jobs'[j] = sync_jobs[j]
                 /\ cleanup_old_jobs_returns(d) = Cardinality(OldTerminal(d))]_vars

\* of two jobs created a day ago, the finished one is gone and the running
\* one is still there
C23_PurgedBesideRunning ==
    /\ now = 1
    /\ next_id > 2
    /\ 1 \notin DOMAIN sync_jobs
    /\ HasRow(2)
    /\ sync_jobs[2].status = "running"
    /\ sync_jobs[2].created_at = 0

(***************************************************************************)
(* Claims about the Database.                                              *)
(***************************************************************************)
\* the rows of a schema_version table that carry the current version
CurrentVersionRows(versions) ==
    {i \in DOMAIN versions : versions[i].version = SCHEMA_VERSION}

\* C24: constructing a Database on a store that exists leaves every row of
\* sync_state and sync_jobs and the schema_version table as they are, with
\* exactly one row for the current version.
C24_InitializeIsIdempotent ==
    [][Initialize
          => /\ sync_state' = sync_state
             /\ sync_jobs' = sync_jobs
             /\ schema_version' = schema_version
             /\ Cardinality(CurrentVersionRows(schema_version')) = 1]_vars

\* two more Database objects were constructed on the store when it held a
\* sync state and a job; a day after the first one the version row is still
\* the one it inserted
C24_InitializedAgainWithData ==
    /\ Len(inits) = 3
    /\ inits[2]
    /\ inits[3]
    /\ now = 1
    /\ sync_state # <<>>
    /\ sync_jobs # <<>>
    /\ Len(schema_version) = 1
    /\ schema_version[1].applied_at = 0

\* the i-th parameter set of a list cannot be executed after the ones before
\* it: too few bindings, or its key has a row or comes earlier in the list
Fails(params_list, i) ==
    \/ ~params_list[i].well_formed
    \/ params_list[i].key \in DOMAIN sync_state
    \/ \E a \in 1..(i - 1) : params_list[a].key = params_list[i].key

\* C25: an execute_write or execute_many call raises exactly when one of its
\* parameter sets cannot be executed, and then the table is as it was before
\* the call, also when parameter sets before the failing one had been
\* executed; when it does not raise, every parameter set is applied.
C25_FailedWriteChangesNothing ==
    [][/\ \A params_list \in Batches :
             ExecuteMany(params_list)
                 => /\ write_ret'[1].raised
                          <=> \E i \in 1..Len(params_list) : Fails(params_list, i)
                    /\ write_ret'[1].raised => sync_state' = sync_state
                    /\ ~write_ret'[1].raised
                          => /\ DOMAIN sync_state' = DOMAIN sync_state \cup
                                    {params_list[i].key : i \in 1..Len(params_list)}
                             /\ \A k \in DOMAIN sync_state :
                                   sync_state'[k] = sync_state[k]
       /\ \A ps \in ParamSets :
             ExecuteWrite(ps)
                 => /\ write_ret'[1].raised <=> Fails(<<ps>>, 1)
                    /\ write_ret'[1].raised => sync_state' = sync_state
                    /\ ~write_ret'[1].raised
                          => DOMAIN sync_state' = DOMAIN sync_state \cup {ps.key}]_vars

\* a call raised after it had executed two parameter sets, and the table is
\* empty
C25_BatchRolledBack ==
    /\ write_ret # None
    /\ write_ret[1].raised
    /\ write_ret[1].executed = 2
    /\ sync_state = <<>>


(***************************************************************************)
(* The rows of table sync_state and the operations that change them.       *)
(***************************************************************************)
\* the step is a read of the tracker: it has returned a value
IsRead == read_ret' # read_ret

\* C26: get_sync_state, should_full_sync, get_all_sync_states and
\* get_sync_summary leave every row of sync_state as it is; the write of
\* update_sync_state and delete_sync_state on a key leave the rows of the
\* other keys as they are; and a row appears or changes only in the write of
\* update_sync_state on its key, and disappears only in delete_sync_state on
\* its key.
C26_OnlyRecordWritesRows ==
    [][/\ IsRead => sync_state' = sync_state
       /\ \A k \in SummaryKeys :
             (Writing(1, k) /\ RecordWrite(1)) \/ DeleteState(k)
                 => \A other \in SummaryKeys \ {k} :
                       get_sync_state(other)' = get_sync_state(other)
       /\ \A k \in SummaryKeys :
             /\ get_sync_state(k)' \notin {None, get_sync_state(k)}
                   => Writing(1, k) /\ RecordWrite(1)
             /\ get_sync_state(k) # None /\ get_sync_state(k)' = None
                   => DeleteState(k)]_vars

\* C26 witness: a row written once stands beside a row written twice, and a
\* read has listed both as they are.
C26_ReadBesideWrites ==
    /\ read_ret # None
    /\ read_ret[1][1] = "get_all_sync_states"
    /\ read_ret[1][2] = None
    /\ Len(read_ret[1][3]) = 2
    /\ \E k, other \in DOMAIN sync_state :
          /\ sync_state[k].total_items_synced = 100
          /\ sync_state[other].total_items_synced = 50
    /\ \A a \in 1..2 :
          \E k \in DOMAIN sync_state : read_ret[1][3][a] = StateRow(k)

(***************************************************************************)
(* get_all_sync_states: the rows it returns and their order.               *)
(***************************************************************************)
\* the rows a list holds
RowsOf(all_states) == {all_states[a] : a \in 1..Len(all_states)}

\* the stored rows of an integration
StoredRowsOf(name) == {StateRow(k) : k \in {x \in DOMAIN sync_state : x[1] = name}}

\* every stored row
StoredRows == {StateRow(k) : k \in DOMAIN sync_state}

\* the list is ordered by updated_at, the most recently updated row first
NewestFirst(all_states) ==
    \A a, b \in 1..Len(all_states) :
       a < b => all_states[a].updated_at >= all_states[b].updated_at

\* C27: get_all_sync_states(integration) returns exactly the stored rows
\* whose integration equals the argument, get_all_sync_states() returns every
\* stored row, each row once, and both lists are ordered by updated_at, the
\* most recently updated row first.
C27_ListIsFilteredAndNewestFirst ==
    [][\A i \in Integrations :
          GetAllSyncStates(i)
              => LET all_states == read_ret'[1][3]
                 IN  /\ RowsOf(all_states) =
                           IF i = None THEN StoredRows ELSE StoredRowsOf(i[1])
                     /\ Len(all_states) = Cardinality(RowsOf(all_states))
                     /\ NewestFirst(all_states)]_vars

(***************************************************************************)
(* The progress callback of a running job.                                 *)
(***************************************************************************)
\* the row of job j is stored with status running
IsRunning(j) == j \in DOMAIN sync_jobs /\ sync_jobs[j].status = "running"

\* C28: when the work function of a job whose row is running calls
\* progress_callback(p, i), the row read at the return of the callback has
\* progress = p, processed_items = i when i is not None and the previous
\* processed_items otherwise, and every other field, status running
\* included, as before.
C28_ProgressWrittenAtReturn ==
    [][\A t \in TaskIds, p \in Fractions, i \in ProgressCounts :
          WorkProgress(t, p, i) /\ IsRunning(tasks[t].job)
              => LET j == tasks[t].job
                 IN  /\ IsRunning(j)'
                     /\ sync_jobs'[j].progress = p
                     /\ sync_jobs'[j].processed_items =
                           IF i # None THEN i[1]
                           ELSE sync_jobs[j].processed_items
                     /\ sync_jobs'[j] =
                           [sync_jobs[j] EXCEPT
                              !.progress = sync_jobs'[j].progress,
                              !.processed_items =
                                  sync_jobs'[j].processed_items]]_vars

\* C28 witness: a running job whose work function has reported a count and
\* then a fraction above one, beside a running job that has reported a
\* negative fraction and no count.
C28_ProgressReported ==
    \E j, other \in DOMAIN sync_jobs :
       /\ IsRunning(j)
       /\ sync_jobs[j].progress = 150
       /\ sync_jobs[j].processed_items = 3
       /\ IsRunning(other)
       /\ sync_jobs[other].progress = -50
       /\ sync_jobs[other].processed_items = ProcessedDefault

(***************************************************************************)
(* The result of a work function, as get_job_status returns it.            *)
(***************************************************************************)
\* C29: when the work function of a stored job returns a serializable value
\* r, empty and zero values included, the job read by get_job_status at the
\* end of the execution has status completed and result r.
C29_ResultRoundTrip ==
    [][\A t \in TaskIds, r \in SerializableResults :
          WorkReturn(t, r) /\ tasks[t].job \in DOMAIN sync_jobs
              => LET job == get_job_status(tasks[t].job)'
                 IN  /\ job # None
                     /\ job[1].status = "completed"
                     /\ job[1].result = Some(r)]_vars

(***************************************************************************)
(* start_job and the first step of the work function.                      *)
(***************************************************************************)
\* the row of job j is stored with status pending
IsPending(j) == j \in DOMAIN sync_jobs /\ sync_jobs[j].status = "pending"

\* C30: start_job(j, job_func) on a stored job leaves the row running and
\* the handle registered, its task not yet run; a task that has run a step
\* belongs to a job that is not pending; and the row of a pending job is
\* changed by start_job alone, which sets its status and nothing else.
C30_StartPrecedesWork ==
    [][/\ \A j \in JobIds :
             StartJob(j) /\ j \in DOMAIN sync_jobs
                 => /\ sync_jobs'[j].status = "running"
                    /\ j \in DOMAIN active_jobs'
                    /\ tasks'[active_jobs'[j]].job = j
                    /\ tasks'[active_jobs'[j]].pc = "scheduled"
                    /\ \A t \in DOMAIN tasks : tasks'[t] = tasks[t]
       /\ \A t \in DOMAIN tasks' :
             (tasks[t].pc # "scheduled" => ~IsPending(tasks[t].job))'
       /\ \A j \in JobIds :
             IsPending(j) /\ (j \notin DOMAIN sync_jobs' \/ sync_jobs'[j] # sync_jobs[j])
                 => /\ StartJob(j)
                    /\ sync_jobs'[j] = [sync_jobs[j] EXCEPT !.status = "running"]]_vars

\* C30 witness: a job is still pending, its cancellation refused for want of
\* a handle, while the work function of a started job has reported progress.
C30_PendingBesideWorking ==
    \E j, other \in DOMAIN sync_jobs :
       /\ IsPending(j)
       /\ cancel_ret = <<j, FALSE>>
       /\ j \notin DOMAIN active_jobs
       /\ sync_jobs[other].status = "running"
       /\ sync_jobs[other].progress = 50
       /\ other \in DOMAIN active_jobs
       /\ tasks[active_jobs[other]].pc = "awaiting"

(***************************************************************************)
(* The stored status of a job whose executions have ended.                 *)
(***************************************************************************)
\* C31: whenever every execution started for a job has ended (its work
\* function returned or raised, or the task was cancelled, before or after
\* its first step), the stored row of the job is completed, failed or
\* cancelled: with several jobs and several executions interleaved, no job is
\* left running once its work functions have ended.
C31_EndedJobIsTerminal ==
    \A j \in JobIds : (ExecutionEnded(j) /\ HasRow(j)) => IsTerminal(j)

\* C31 witness: two jobs ran side by side; the work function of one has
\* returned, the task of the other was cancelled before its first step.
C31_BothEnded ==
    \E j, other \in DOMAIN sync_jobs :
       /\ ExecutionEnded(j)
       /\ sync_jobs[j].status = "completed"
       /\ ExecutionEnded(other)
       /\ sync_jobs[other].status = "cancelled"
       /\ other \in DOMAIN active_jobs

(***************************************************************************)
(* The jobs that were running when the owning process stopped.             *)
(***************************************************************************)
\* the jobs running at the last stop of the process, with their rows
Orphans == IF stops = <<>> THEN <<>> ELSE stops[Len(stops)]

\* C32: a job that was running when the owning process stopped keeps, in the
\* process started after it, its row as it was (status running, the progress
\* last written), is in the list get_active_jobs returns, is not deleted by
\* cleanup_old_jobs, and cancel_job on it returns False and writes nothing:
\* no step of the new process changes its row.
C32_OrphanStaysRunning ==
    [][\A j \in DOMAIN Orphans :
          /\ HasRow(j)'
          /\ sync_jobs'[j] = Orphans[j]
          /\ \A listed \in get_active_jobs' :
                \E a \in DOMAIN listed : listed[a] = j
          /\ CancelJob(j)
                => cancel_ret' = <<j, FALSE>> /\ sync_jobs' = sync_jobs]_vars

(***************************************************************************)
(* Two first calls of update_sync_state racing on one key.                 *)
(***************************************************************************)
\* C33: when a call of update_sync_state that had read no row for its key is
\* written after another call has inserted the key's row, its INSERT is
\* rejected by UNIQUE(integration, resource_id) and the call raises; the
\* table stays as the first call left it, so the row holds the first call's
\* count and fields and the second count is not added. A call whose INSERT
\* or UPDATE is not rejected does not raise.
C33_SecondInsertRaises ==
    [][\A c \in Callers, k \in WatermarkKeys :
          RecordWrite(c) /\ Writing(c, k)
              => /\ InsertRejected(c)
                    => /\ LastCall(k)'.raised
                       /\ sync_state' = sync_state
                       /\ nrows' = nrows
                 /\ ~InsertRejected(c) => ~LastCall(k)'.raised]_vars

\* C33 witness: two calls had both read no row for the key; the first was
\* written without error, the second raised, and the row holds the count and
\* the status of the first, which differ from those of the second.
C33_RaisedAfterFirstInsert ==
    \E k \in WatermarkKeys :
        /\ HasState(k)
        /\ Len(hist[k].recent) = 2
        /\ hist[k].recent[1].base = None
        /\ ~hist[k].recent[1].raised
        /\ hist[k].recent[2].base = None
        /\ hist[k].recent[2].raised
        /\ hist[k].recent[1].new_items # hist[k].recent[2].new_items
        /\ hist[k].recent[1].status # hist[k].recent[2].status
        /\ sync_state[k].total_items_synced = hist[k].recent[1].new_items
        /\ sync_state[k].last_sync_status = hist[k].recent[1].status

(***************************************************************************)
(* delete_sync_state between the read and the write of a call.             *)
(***************************************************************************)
\* the row caller c had read has been deleted since
UpdateOfDeletedRow(c) ==
    /\ calls[c].pc = "read"
    /\ calls[c].current # None
    /\ calls[c].key \notin DOMAIN sync_state

\* C34: when the row a call of update_sync_state had read has been deleted
\* before the call is written, the UPDATE changes no row and the call does
\* not raise: the table is as before, the key has no row, and nothing of the
\* call's outcome is stored.
C34_UpdateAfterDeleteIsLost ==
    [][\A c \in Callers, k \in WatermarkKeys :
          RecordWrite(c) /\ Writing(c, k) /\ UpdateOfDeletedRow(c)
              => /\ ~LastCall(k)'.raised
                 /\ sync_state' = sync_state
                 /\ ~HasState(k)'
                 /\ nrows' = nrows]_vars

\* C34 witness: the only call written on the key since its delete had read a
\* row, and the key has no row.
C34_WrittenOnNoRow ==
    \E k \in WatermarkKeys :
        /\ ~HasState(k)
        /\ Len(hist[k].recent) = 1
        /\ hist[k].recent[1].base # None
        /\ ~hist[k].recent[1].raised
        /\ hist[k].recent[1].new_items > 0
        /\ \A c \in Callers : calls[c].pc = "idle"

(***************************************************************************)
(* delete_sync_state and the call recorded after it.                       *)
(***************************************************************************)
\* C35: after delete_sync_state on a key, get_sync_state returns None for it
\* and should_full_sync returns True for every max_age_days, the rows of the
\* other keys being as before; on a key without a row delete_sync_state
\* leaves the table as it is; and the call of update_sync_state that reads
\* and is written on a key without a row inserts a row created now whose
\* total_items_synced and last_sync_new_items are its new_items.
C35_DeleteForgetsTheTotal ==
    [][\A k \in WatermarkKeys :
          /\ DeleteState(k)
                => /\ get_sync_state(k)' = None
                   /\ \A m \in MaxAges : should_full_sync(k, m)'
                   /\ ~HasState(k) => sync_state' = sync_state
          /\ \A c \in Callers :
                (/\ RecordWrite(c)
                 /\ Writing(c, k)
                 /\ calls[c].current = None
                 /\ ~HasState(k))
                    => /\ HasState(k)'
                       /\ sync_state'[k].total_items_synced = calls[c].new_items
                       /\ sync_state'[k].last_sync_new_items = calls[c].new_items
                       /\ sync_state'[k].created_at = now
                       /\ ~LastCall(k)'.raised]_vars

\* C35 witness: a caller still holds the row it had read before the delete,
\* total 2 and status failed; the one call recorded since the delete has
\* inserted a row of status success whose total is its own count, 2, and
\* not 4.
C35_FreshRowAfterDelete ==
    \E k \in WatermarkKeys, c \in Callers :
        /\ Writing(c, k)
        /\ calls[c].current # None
        /\ calls[c].current[1].total_items_synced = 2
        /\ calls[c].current[1].last_sync_status = "failed"
        /\ HasState(k)
        /\ sync_state[k].last_sync_status = "success"
        /\ Len(hist[k].recent) = 1
        /\ hist[k].recent[1].base = None
        /\ hist[k].recent[1].new_items = 2
        /\ sync_state[k].total_items_synced = 2

HandleOf(j) == IF j \in DOMAIN active_jobs THEN Some(active_jobs[j]) ELSE None

\* the step changes nothing of job j: its row, its handle, its tasks
Untouched(j) ==
    /\ get_job_status(j)' = get_job_status(j)
    /\ HandleOf(j)' = HandleOf(j)
    /\ \A t \in TasksOf(j) : tasks'[t] = tasks[t]

\* the step is a step of task t, as IndependenceNext takes them
EventOf(t) ==
    \/ TaskStart(t)
    \/ TaskStartCancelled(t)
    \/ WorkProgress(t, 50, Some(3))
    \/ WorkReturn(t, PyDict)
    \/ \E m \in ErrorMessages : WorkRaise(t, m)
    \/ WorkCancelled(t)

\* C37: start_job, cancel_job and every step of an execution of job j (its
\* start, a progress report, the return or the exception of its work
\* function, its cancellation) leave the row, the handle and the tasks of
\* every other job as they are; create_job leaves those of every job that
\* has a row as they are.
C37_JobsAreIndependent ==
    [][/\ \A j \in JobIds :
             StartJob(j) \/ CancelJob(j)
                 => \A other \in JobIds \ {j} : Untouched(other)
       /\ \A t \in DOMAIN tasks :
             EventOf(t) => \A other \in JobIds \ {tasks[t].job} : Untouched(other)
       /\ CreateJob => \A other \in DOMAIN sync_jobs : Untouched(other)]_vars

\* C37 witness: the work function of one job has returned and its handle is
\* gone, while the other job is running, as its last progress report left
\* it, with its handle and its task.
C37_CompletedBesideRunning ==
    \E j, other \in DOMAIN sync_jobs :
       /\ sync_jobs[j].status = "completed"
       /\ sync_jobs[j].result # None
       /\ j \notin DOMAIN active_jobs
       /\ IsRunning(other)
       /\ sync_jobs[other].progress = 50
       /\ sync_jobs[other].processed_items = 3
       /\ HandleOf(other) # None
       /\ tasks[active_jobs[other]].job = other
       /\ tasks[active_jobs[other]].pc = "awaiting"

\* the work function that task t called is still executing: _run_job is
\* suspended inside `await job_func(...)`
Executing(t) == t \in DOMAIN tasks /\ tasks[t].pc = "awaiting"

\* C38: in every reachable state, every execution of a work function that
\* has not ended is the one the registry holds under its job id, so that
\* cancel_job(job_id) finds a handle and cancels that execution.
C38_ExecutionHasItsHandle ==
    \A t \in DOMAIN tasks :
        Executing(t) =>
            /\ tasks[t].job \in DOMAIN active_jobs
            /\ active_jobs[tasks[t].job] = t
====
